---- MODULE Spec2Model ----
(***************************************************************************)
(* The two download programs of the repository as one state machine.       *)
(*   prog = "url"  : src/unnamed/part_000 (manifest embedded in a page,    *)
(*                   ticker-paced work queue with append-on-retry)         *)
(*   prog = "file" : src/file/main.go (descriptor file, license request,   *)
(*                   one request per part, no retry)                       *)
(* Time is discrete: one unit is one second of the ticker's clock.         *)
(***************************************************************************)
EXTENDS Integers, Sequences, FiniteSets, TLC

VARIABLES
    prog,          \* which program runs
    pc,            \* position of run()
    retryCount,    \* flag -r
    rateInterval,  \* flag -i, as given on the command line
    page,          \* flag -u and what the URL answers
    dataBytes,     \* the bytes the pattern extracted from the script element
    spine,         \* data.Spine: the OriginalPath of each entry, in order
    odm,           \* flag -f and the descriptor file it names
    interval,      \* the parsed rate interval
    requests,      \* the work queue
    index,         \* loop cursor (0-based, as in the code)
    tick,          \* number of ticks waiting in ticker.C (capacity 1)
    now,           \* clock, started when the ticker is created
    license,       \* body of the license answer
    files,         \* output directory: path -> content
    sent,          \* every request sent so far, in order
    outcomes,      \* the answers to the requests of sent, in order
    err            \* what run() returned

vars == <<prog, pc, retryCount, rateInterval, page, dataBytes, spine, odm,
          interval, requests, index, tick, now, license, files, sent,
          outcomes, err>>

-----------------------------------------------------------------------------
(* Bounds of the model *)

MaxEntries == 3

MaxRetry == 1

MaxTime == 6

(* Program constants *)

StatusOK == 200

StatusNoContent == 204

-----------------------------------------------------------------------------
(* Values *)

Names == {"a.mp3", "b.mp3"}

(* names no manifest should carry: empty, and leaving the output directory *)
BadNames == {"", "../a.mp3"}

MetadataPath == "metadata.json"

PartNames == {"a", "b"}

Bodies == {"x", "y"}

Absent == "<absent>"

Truncated == "<truncated>"

NoBody == ""

RECURSIVE SeqsUpTo(_, _)
SeqsUpTo(S, n) ==
    IF n = 0 THEN {<<>>}
    ELSE LET shorter == SeqsUpTo(S, n - 1)
         IN  shorter \cup {Append(s, x) : s \in shorter, x \in S}

(* Statuses other than 200 and 204 that a server may answer. *)
OtherStatuses == {403, 500}

(* What one part request can meet: net = "fail" is client.Do returning an  *)
(* error; fs says how os.Create and io.Copy fare when the file is written. *)
PartResponses ==
    {[net |-> "fail", status |-> 0, body |-> NoBody, fs |-> "none"]}
    \cup {[net |-> "ok", status |-> s, body |-> NoBody, fs |-> "none"] :
            s \in {StatusNoContent} \cup OtherStatuses}
    \cup {[net |-> "ok", status |-> StatusOK, body |-> b, fs |-> "ok"] :
            b \in Bodies}
    \cup {[net |-> "ok", status |-> StatusOK, body |-> "x", fs |-> f] :
            f \in {"createfail", "copyfail"}}

(* errors: the format string and its arguments *)
Nil == [fmt |-> "nil", args |-> <<>>]

Errorf(f, a) == [fmt |-> f, args |-> a]

errDownloadFailed == Errorf("download failed", <<>>)

IsNil(e) == e.fmt = "nil"

-----------------------------------------------------------------------------
(* The URL variant: src/unnamed/part_000 *)

RateIntervals == {"0", "1s", "2s", "2"}

(* time.ParseDuration on the strings of RateIntervals: "0" is the one      *)
(* string accepted without a unit, "2" has none and is rejected.           *)
ParseDuration(s) ==
    CASE s = "0"  -> [d |-> 0, err |-> Nil]
      [] s = "1s" -> [d |-> 1, err |-> Nil]
      [] s = "2s" -> [d |-> 2, err |-> Nil]
      [] OTHER    -> [d |-> 0,
                      err |-> Errorf("time: missing unit in duration %q", <<s>>)]

\* path.Join of the output directory and name, relative to that directory:
\* the result is cleaned, so an empty name gives the directory itself
PathJoin(name) == IF name = "" THEN "." ELSE name

FilePaths == {PathJoin(n) : n \in Names \cup BadNames} \cup {MetadataPath}

(* the manifests a page can carry *)
Manifests ==
    SeqsUpTo(Names, MaxEntries)
    \cup {<<n>> : n \in BadNames}
    \cup {<<"a.mp3", n>> : n \in BadNames}

DownloadAttempt(count, idx, name) ==
    [Count |-> count, Index |-> idx, Name |-> name]

(* MakeRequests filling the queue from the last spine entry to the first *)
MakeRequestsReversed(sp) ==
    [i \in 1..Len(sp) |->
        DownloadAttempt(0, Len(sp) + 1 - i, sp[Len(sp) + 1 - i])]

(* run, lines 175-192: one attempt per spine entry, Count 0, Index 1-based *)
MakeRequests(sp) ==
    [i \in 1..Len(sp) |-> DownloadAttempt(0, i, sp[i])]

(* downloadFile with the destination created before the status is looked at *)
downloadFileCreateFirst(name, r, fs) ==
    IF r.net = "fail"
        THEN [err |-> Errorf("network error", <<>>), files |-> fs]
    ELSE IF r.fs = "createfail" \/ PathJoin(name) = "."
        THEN [err |-> Errorf("create failed", <<>>), files |-> fs]
    ELSE LET created == [fs EXCEPT ![PathJoin(name)] = Truncated]
         IN  IF r.status = StatusNoContent
                 THEN [err |-> errDownloadFailed, files |-> created]
             ELSE IF r.status # StatusOK
                 THEN [err |-> Errorf("returned %d status", <<r.status>>),
                       files |-> created]
             ELSE IF r.fs = "copyfail"
                 THEN [err |-> Errorf("copy failed", <<>>), files |-> created]
             ELSE [err |-> Nil,
                   files |-> [fs EXCEPT ![PathJoin(name)] = r.body]]

(* downloadFile of the URL variant: the error returned and the files left *)
downloadFile(name, r, fs) ==
    IF r.net = "fail"
        THEN [err |-> Errorf("network error", <<>>), files |-> fs]
    ELSE IF r.status = StatusNoContent
        THEN [err |-> errDownloadFailed, files |-> fs]
    ELSE IF r.status # StatusOK
        THEN [err |-> Errorf("returned %d status", <<r.status>>), files |-> fs]
    ELSE IF r.fs = "createfail" \/ PathJoin(name) = "."
        THEN [err |-> Errorf("create failed", <<>>), files |-> fs]
    ELSE IF r.fs = "copyfail"
        THEN [err |-> Errorf("copy failed", <<>>),
              files |-> [fs EXCEPT ![PathJoin(name)] = Truncated]]
    ELSE [err |-> Nil, files |-> [fs EXCEPT ![PathJoin(name)] = r.body]]

(* LoopPc with the length of the queue read once, before the loop, as a    *)
(* range loop over requests would                                          *)
LoopPcFixedLength(i, reqs) == IF i < Len(spine) THEN "wait" ELSE "done"

(* LoopPc of a loop that does not leave once the queue is drained *)
LoopPcNoReturn(i, reqs) == IF i < Len(reqs) THEN "wait" ELSE "blocked"

(* the loop condition of line 195 *)
LoopPc(i, reqs) == IF i < Len(reqs) THEN "wait" ELSE "done"

(* Classify with the retry test off by one (Count <= limit) *)
ClassifyOffByOne(e, dr, limit) ==
    IF e.fmt = errDownloadFailed.fmt
        THEN IF dr.Count <= limit THEN "retry" ELSE "failed"
    ELSE IF ~IsNil(e) THEN "fatal"
    ELSE "ok"

(* Classify with an exhausted retry budget treated like any other error *)
ClassifyExhaustedFatal(e, dr, limit) ==
    IF e.fmt = errDownloadFailed.fmt /\ dr.Count < limit THEN "retry"
    ELSE IF ~IsNil(e) THEN "fatal"
    ELSE "ok"

(* Classify with every error but the 204 swallowed *)
ClassifySwallow(e, dr, limit) ==
    IF e.fmt = errDownloadFailed.fmt
        THEN IF dr.Count < limit THEN "retry" ELSE "failed"
    ELSE "ok"

(* run, lines 203-215: what run makes of the error downloadFile returned *)
Classify(e, dr, limit) ==
    IF e.fmt = errDownloadFailed.fmt
        THEN IF dr.Count < limit THEN "retry" ELSE "failed"
    ELSE IF ~IsNil(e) THEN "fatal"
    ELSE "ok"

(* Requeue with the retry put right behind the attempts already executed,  *)
(* that is, retried at once                                                *)
RequeueNext(reqs, dr) ==
    LET again == [dr EXCEPT !.Count = dr.Count + 1]
        k == CHOOSE i \in 1..Len(reqs) : reqs[i] = dr
    IN  SubSeq(reqs, 1, k) \o <<again>> \o SubSeq(reqs, k + 1, Len(reqs))

(* Requeue with the attempt appended twice *)
RequeueTwice(reqs, dr) ==
    LET again == [dr EXCEPT !.Count = dr.Count + 1]
    IN  Append(Append(reqs, again), again)

(* run, lines 207-208: the queue with the attempt requeued *)
Requeue(reqs, dr) == Append(reqs, [dr EXCEPT !.Count = dr.Count + 1])

(* the ticker's send at a multiple of the interval: non-blocking, into a   *)
(* channel of capacity one, so a tick that finds the channel full is lost  *)
TickAfter(t, d, buffered) == IF t % d = 0 THEN TRUE ELSE buffered

(* The document: html.Parse always yields html > (head, body); the page    *)
(* decides the children of body.                                           *)
Element(tag, id, kids) ==
    [Type |-> "element", Data |-> tag, Id |-> id, Kids |-> kids]

Text(t) == [Type |-> "text", Data |-> t, Id |-> "", Kids |-> <<>>]

Parse(body) ==
    [Type |-> "document", Data |-> "", Id |-> "",
     Kids |-> <<Element("html", "", <<Element("head", "", <<>>),
                                      Element("body", "", body)>>)>>]

(* lines 114-124 *)
HtmlNode(tag, id) == [Tag |-> tag, Id |-> id]

htmlPath ==
    <<HtmlNode("html", ""), HtmlNode("body", ""),
      HtmlNode("div", "BIFOCAL-runtime"), HtmlNode("script", "BIFOCAL-data")>>

(* lines 130-149: the node is an element with the tag and, if asked, the id *)
Matches(node, selector) ==
    /\ node.Type = "element"
    /\ node.Data = selector.Tag
    /\ (selector.Id = "" \/ node.Id = selector.Id)

(* Walk that stops at the first child with the tag, whatever its id *)
RECURSIVE WalkFirstTag(_, _)
WalkFirstTag(current, selectors) ==
    IF selectors = <<>> THEN [err |-> Nil, node |-> current]
    ELSE LET sel == Head(selectors)
             tagged == {i \in 1..Len(current.Kids) :
                          /\ current.Kids[i].Type = "element"
                          /\ current.Kids[i].Data = sel.Tag}
         IN  IF tagged = {}
                 THEN [err |-> Errorf("unable to find element <%s>", <<sel.Tag>>),
                       node |-> current]
                 ELSE WalkFirstTag(
                        current.Kids[CHOOSE i \in tagged :
                                        \A j \in tagged : i <= j],
                        Tail(selectors))

(* lines 126-152: the first matching child at every segment, or the error  *)
(* that names the segment's tag                                            *)
RECURSIVE Walk(_, _)
Walk(current, selectors) ==
    IF selectors = <<>> THEN [err |-> Nil, node |-> current]
    ELSE LET sel == Head(selectors)
             hits == {i \in 1..Len(current.Kids) :
                        Matches(current.Kids[i], sel)}
         IN  IF hits = {}
                 THEN [err |-> Errorf("unable to find element <%s>", <<sel.Tag>>),
                       node |-> current]
                 ELSE Walk(current.Kids[CHOOSE i \in hits :
                                           \A j \in hits : i <= j],
                           Tail(selectors))

(* The script texts of the model. {J} stands for a JSON object that        *)
(* decodes to the page's manifest, {J,} for one that does not decode.      *)
ScriptTexts ==
    {"window.bData = {J}", "window.bData &#61; {J}", "window.bData = {J,}",
     "var x = 1"}

(* html.UnescapeString, line 154 *)
UnescapeString(t) ==
    IF t = "window.bData &#61; {J}" THEN "window.bData = {J}" ELSE t

(* dataRegxp.FindSubmatch, lines 25 and 155: the match and its group, or   *)
(* the empty (nil) slice                                                   *)
FindSubmatch(t) ==
    CASE t = "window.bData = {J}"  -> <<t, "{J}">>
      [] t = "window.bData = {J,}" -> <<t, "{J,}">>
      [] OTHER                     -> <<>>

(* json.Unmarshal, lines 169-173 *)
Unmarshal(bytes, manifest) ==
    IF bytes = "{J}" THEN [err |-> Nil, spine |-> manifest]
    ELSE [err |-> Errorf("invalid character", <<>>), spine |-> <<>>]

Runtime(kids) == Element("div", "BIFOCAL-runtime", kids)

DataScript(kids) == Element("script", "BIFOCAL-data", kids)

GoodBody(t) == <<Runtime(<<DataScript(<<Text(t)>>)>>)>>

(* bodies in which the path or the pattern fails, or succeeds after a      *)
(* detour                                                                  *)
OddBodies ==
    {<<>>,
     <<Element("div", "other", <<DataScript(<<Text("window.bData = {J}")>>)>>)>>,
     <<Runtime(<<>>)>>,
     <<Runtime(<<Element("script", "other",
                         <<Text("window.bData = {J}")>>)>>)>>,
     <<Runtime(<<DataScript(<<>>)>>)>>,
     <<Text("x"), Element("div", "other", <<>>),
       Runtime(<<Element("script", "", <<Text("var x = 1")>>),
                 DataScript(<<Text("window.bData = {J}")>>)>>)>>}
    \cup {GoodBody(t) : t \in ScriptTexts \ {"window.bData = {J}"}}

PageAnswer(net, status) == [net |-> net, status |-> status]

Page(url, answer, body, manifest) ==
    [url |-> url, answer |-> answer, body |-> body, manifest |-> manifest]

Pages ==
    {Page("", PageAnswer("ok", StatusOK), <<>>, <<>>),
     Page("u", PageAnswer("fail", 0), <<>>, <<>>)}
    \cup {Page("u", PageAnswer("ok", s), <<>>, <<>>) : s \in OtherStatuses}
    \cup {Page("u", PageAnswer("ok", StatusOK), b, <<"a.mp3", "b.mp3">>) :
            b \in OddBodies}
    \cup {Page("u", PageAnswer("ok", StatusOK),
               GoodBody("window.bData = {J}"), m) : m \in Manifests}

NoPage == Page("", PageAnswer("fail", 0), <<>>, <<>>)

(* lines 69-76 *)
UrlStart ==
    /\ prog = "url" /\ pc = "start"
    /\ LET p == ParseDuration(rateInterval)
       IN  IF page.url = ""
               THEN /\ interval' = interval
                    /\ pc' = "error"
                    /\ err' = Errorf("odm url required", <<>>)
           ELSE IF IsNil(p.err)
               THEN /\ interval' = p.d
                    /\ pc' = "fetch"
                    /\ err' = err
               ELSE /\ interval' = interval
                    /\ pc' = "error"
                    /\ err' = p.err
    /\ UNCHANGED <<page, dataBytes, prog, retryCount, rateInterval, spine, odm,
                   requests, index, tick, now, license, files, sent, outcomes>>

(* lines 89-107: the page is fetched *)
UrlFetch ==
    /\ prog = "url" /\ pc = "fetch"
    /\ IF page.answer.net = "fail"
           THEN pc' = "error" /\ err' = Errorf("network error", <<>>)
       ELSE IF page.answer.status # StatusOK
           THEN /\ pc' = "error"
                /\ err' = Errorf("url returned a %d status: %s",
                                 <<page.answer.status>>)
       ELSE pc' = "extract" /\ err' = err
    /\ UNCHANGED <<page, dataBytes, prog, retryCount, rateInterval, spine,
                   odm, interval, requests, index, tick, now, license, files,
                   sent, outcomes>>

(* lines 155 and 154: what indexing the match does, and what reading the  *)
(* first child of the script element does                                  *)
Extract(script) ==
    IF script.Kids = <<>> THEN [panic |-> TRUE, bytes |-> NoBody]
    ELSE LET m == FindSubmatch(UnescapeString(script.Kids[1].Data))
         IN  IF Len(m) < 2 THEN [panic |-> TRUE, bytes |-> NoBody]
             ELSE [panic |-> FALSE, bytes |-> m[2]]

(* lines 109-155: parse, walk the path, extract the JSON bytes *)
UrlExtract ==
    /\ prog = "url" /\ pc = "extract"
    /\ LET w == Walk(Parse(page.body), htmlPath)
       IN  IF ~IsNil(w.err)
               THEN pc' = "error" /\ err' = w.err /\ dataBytes' = dataBytes
           ELSE IF Extract(w.node).panic
               THEN pc' = "panic" /\ err' = err /\ dataBytes' = dataBytes
           ELSE /\ pc' = "metadata" /\ err' = err
                /\ dataBytes' = Extract(w.node).bytes
    /\ UNCHANGED <<page, prog, retryCount, rateInterval, spine, odm, interval,
                   requests, index, tick, now, license, files, sent, outcomes>>

(* WriteMetadata with the write left out *)
WriteMetadataSkipped(bytes, fs, how) == fs

(* what lines 157-167 leave in the metadata file *)
WriteMetadata(bytes, fs, how) ==
    CASE how = "createfail" -> fs
      [] how = "writefail"  -> [fs EXCEPT ![MetadataPath] = Truncated]
      [] OTHER              -> [fs EXCEPT ![MetadataPath] = bytes]

(* lines 157-167: metadata.json is created and written *)
UrlMetadata ==
    /\ prog = "url" /\ pc = "metadata"
    /\ \E how \in {"ok", "createfail", "writefail"} :
        /\ files' = WriteMetadata(dataBytes, files, how)
        /\ IF how = "ok"
               THEN pc' = "parse" /\ err' = err
               ELSE pc' = "error" /\ err' = Errorf("write failed", <<how>>)
    /\ UNCHANGED <<page, dataBytes, prog, retryCount, rateInterval, spine,
                   odm, interval, requests, index, tick, now, license, sent,
                   outcomes>>

(* lines 169-173: the bytes are decoded *)
UrlParse ==
    /\ prog = "url" /\ pc = "parse"
    /\ LET u == Unmarshal(dataBytes, page.manifest)
       IN  IF IsNil(u.err)
               THEN pc' = "build" /\ err' = err /\ spine' = u.spine
               ELSE pc' = "error" /\ err' = u.err /\ spine' = spine
    /\ UNCHANGED <<page, dataBytes, prog, retryCount, rateInterval, odm,
                   interval, requests, index, tick, now, license, files, sent,
                   outcomes>>

BuildRequests ==
    /\ prog = "url" /\ pc = "build"
    /\ requests' = MakeRequests(spine)
    /\ pc' = "ticker"
    /\ UNCHANGED <<page, dataBytes, prog, retryCount, rateInterval, spine, odm,
                   interval, index, tick, now, license, files, sent, outcomes,
                   err>>

(* line 194: time.NewTicker panics on a non-positive interval *)
NewTicker ==
    /\ prog = "url" /\ pc = "ticker"
    /\ IF interval <= 0
           THEN pc' = "panic" /\ index' = index
           ELSE pc' = LoopPc(0, requests) /\ index' = 0
    /\ now' = 0
    /\ tick' = FALSE
    /\ UNCHANGED <<page, dataBytes, prog, retryCount, rateInterval, spine, odm,
                   interval, requests, license, files, sent, outcomes, err>>

(* the clock advances while run waits for a tick or for an answer; a run   *)
(* blocked on ticker.C receives a tick the moment it is sent               *)
TimePasses ==
    /\ prog = "url" /\ pc \in {"wait", "download"}
    /\ ~(pc = "wait" /\ tick)
    /\ now < MaxTime
    /\ now' = now + 1
    /\ tick' = TickAfter(now + 1, interval, tick)
    /\ UNCHANGED <<page, dataBytes, prog, pc, retryCount, rateInterval, spine, odm,
                   interval, requests, index, license, files,
                   sent, outcomes, err>>

(* lines 196-202: receive a tick, then send the request of requests[index] *)
AwaitTick ==
    /\ prog = "url" /\ pc = "wait"
    /\ tick
    /\ tick' = FALSE
    /\ LET dr == requests[index + 1]
       IN  sent' = Append(sent, [kind |-> "part", Index |-> dr.Index,
                                 Count |-> dr.Count, Name |-> dr.Name,
                                 at |-> now, License |-> NoBody])
    /\ pc' = "download"
    /\ UNCHANGED <<page, dataBytes, prog, retryCount, rateInterval, spine, odm,
                   interval, requests, index, now, license, files, outcomes,
                   err>>

(* FatalError naming the queue position of the attempt, not its Index *)
FatalErrorAtPosition(dr, e) ==
    Errorf("downloading file %d failed: %v", <<index + 1, e>>)

(* lines 213-214: the error run returns on a fatal failure *)
FatalError(dr, e) ==
    Errorf("downloading file %d failed: %v", <<dr.Index, e>>)

(* downloadFile returns, and run acts on its result: lines 203-216 *)
UrlRespond ==
    /\ prog = "url" /\ pc = "download"
    /\ \E r \in PartResponses :
        LET dr  == requests[index + 1]
            res == downloadFile(dr.Name, r, files)
        IN  /\ outcomes' = Append(outcomes, r)
            /\ files' = res.files
            /\ LET class == Classify(res.err, dr, retryCount)
               IN  IF class = "fatal"
                       THEN /\ requests' = requests
                            /\ index' = index
                            /\ pc' = "error"
                            /\ err' = FatalError(dr, res.err)
                       ELSE /\ requests' = IF class = "retry"
                                               THEN Requeue(requests, dr)
                                               ELSE requests
                            /\ index' = index + 1
                            /\ pc' = LoopPc(index + 1, requests')
                            /\ err' = err
    /\ UNCHANGED <<page, dataBytes, prog, retryCount, rateInterval, spine, odm,
                   interval, tick, now, license, sent>>

-----------------------------------------------------------------------------
(* The descriptor variant: src/file/main.go *)

Protocol(m) == [Method |-> m]

ProtocolLists ==
    {<<>>, <<Protocol("download")>>, <<Protocol("stream")>>,
     <<Protocol("download"), Protocol("stream")>>}

Format(count, parts, protocols) ==
    [Parts |-> [Count |-> count, Part |-> parts], Protocols |-> protocols]

FormatSet ==
    {Format(c, ps, pr) : c \in 0..MaxEntries,
                         ps \in SeqsUpTo(PartNames, MaxEntries),
                         pr \in ProtocolLists}

GoodFormat == Format(1, <<"a">>, <<Protocol("download")>>)

(* flag -f and what the file decodes to; AcquisitionUrl "" is a descriptor  *)
(* without the element, which leaves Url.Value nil                         *)
Descriptors ==
    {[filename |-> "", decodes |-> TRUE, AcquisitionUrl |-> "acq", Formats |-> <<GoodFormat>>],
     [filename |-> "book.odm", decodes |-> FALSE, AcquisitionUrl |-> "", Formats |-> <<>>],
     [filename |-> "book.odm", decodes |-> TRUE, AcquisitionUrl |-> "acq", Formats |-> <<>>]}
    \cup {[filename |-> "book.odm", decodes |-> TRUE,
           AcquisitionUrl |-> "acq", Formats |-> <<f>>] : f \in FormatSet}
    \cup {[filename |-> "book.odm", decodes |-> TRUE, AcquisitionUrl |-> "",
           Formats |-> <<GoodFormat>>]}
    \cup {[filename |-> "book.odm", decodes |-> TRUE,
           AcquisitionUrl |-> "acq", Formats |-> <<GoodFormat, f>>] :
            f \in {GoodFormat, Format(0, <<>>, <<>>)}}
    \cup {[filename |-> "book.odm", decodes |-> TRUE,
           AcquisitionUrl |-> "acq", Formats |-> <<Format(Len(ps), ps, <<Protocol("download")>>)>>] :
            ps \in {<<"../a">>, <<"a", "../a">>}}

LicenseBodies == {"L1", "L2"}

LicenseResponses ==
    {[net |-> "fail", status |-> 0, body |-> NoBody, fs |-> "none"]}
    \cup {[net |-> "ok", status |-> s, body |-> b, fs |-> "none"] :
            s \in {StatusOK, StatusNoContent} \cup OtherStatuses,
            b \in LicenseBodies}
    \cup {[net |-> "ok", status |-> s, body |-> "L1", fs |-> "readfail"] :
            s \in {StatusOK} \cup OtherStatuses}

(* run, lines 111-128: the error of the first check that fails, or nil *)
Validate(data) ==
    IF Len(data.Formats) # 1
        THEN Errorf("expected 1 format, got %d", <<Len(data.Formats)>>)
    ELSE IF Len(data.Formats[1].Parts.Part) # data.Formats[1].Parts.Count
        THEN Errorf("expected %d format, got %d",
                    <<data.Formats[1].Parts.Count, Len(data.Formats)>>)
    ELSE IF Len(data.Formats[1].Protocols) # 1
        THEN Errorf("expected 1 protocol, got %d",
                    <<Len(data.Formats[1].Protocols)>>)
    ELSE IF data.Formats[1].Protocols[1].Method # "download"
        THEN Errorf("unknown protocol method: %s",
                    <<data.Formats[1].Protocols[1].Method>>)
    ELSE Nil

(* Acquire with the status of the answer not looked at *)
AcquireAnyStatus(a) ==
    IF a.net = "fail"
        THEN [err |-> Errorf("network error", <<>>), license |-> NoBody]
    ELSE IF a.fs = "readfail"
        THEN [err |-> Errorf("read failed", <<>>), license |-> NoBody]
    ELSE [err |-> Nil, license |-> a.body]

(* run, lines 145-162: the license and the error after the acquisition *)
Acquire(a) ==
    IF a.net = "fail"
        THEN [err |-> Errorf("network error", <<>>), license |-> NoBody]
    ELSE IF a.fs = "readfail"
        THEN [err |-> Errorf("read failed", <<>>), license |-> NoBody]
    ELSE IF a.status # StatusOK
        THEN [err |-> Errorf("acquiring license returned a %d status: %s",
                             <<a.status, a.body>>),
              license |-> NoBody]
    ELSE [err |-> Nil, license |-> a.body]

(* the file name of line 196 *)
PartFile(name) == name \o ".mp3"

(* downloadFile of the descriptor variant *)
fileDownloadFile(name, r, fs) ==
    IF r.net = "fail"
        THEN [err |-> Errorf("network error", <<>>), files |-> fs]
    ELSE IF r.status # StatusOK
        THEN [err |-> Errorf("downloading file returned a %d status",
                             <<r.status>>),
              files |-> fs]
    ELSE IF r.fs = "createfail"
        THEN [err |-> Errorf("create failed", <<>>), files |-> fs]
    ELSE IF r.fs = "copyfail"
        THEN [err |-> Errorf("copy failed", <<>>),
              files |-> [fs EXCEPT ![PathJoin(PartFile(name))] = Truncated]]
    ELSE [err |-> Nil,
          files |-> [fs EXCEPT ![PathJoin(PartFile(name))] = r.body]]

(* the range loop of line 164 *)
PartsPc(i, parts) == IF i < Len(parts) THEN "parts" ELSE "done"

(* lines 85-109 *)
FileStart ==
    /\ prog = "file" /\ pc = "start"
    /\ IF odm.filename = ""
           THEN pc' = "error" /\ err' = Errorf("odm file required", <<>>)
       ELSE IF ~odm.decodes
           THEN pc' = "error" /\ err' = Errorf("decode failed", <<>>)
       ELSE pc' = "validate" /\ err' = err
    /\ UNCHANGED <<page, dataBytes, prog, retryCount, rateInterval, spine, odm, interval,
                   requests, index, tick, now, license, files, sent, outcomes>>

(* lines 111-128 *)
FileValidate ==
    /\ prog = "file" /\ pc = "validate"
    /\ LET e == Validate(odm)
       IN  IF IsNil(e)
               THEN pc' = "acquire" /\ err' = err
               ELSE pc' = "error" /\ err' = e
    /\ UNCHANGED <<page, dataBytes, prog, retryCount, rateInterval, spine, odm, interval,
                   requests, index, tick, now, license, files, sent, outcomes>>

(* lines 130-162; line 131 dereferences the acquisition URL *)
FileAcquire ==
    /\ prog = "file" /\ pc = "acquire"
    /\ IF odm.AcquisitionUrl = ""
           THEN /\ pc' = "panic"
                /\ UNCHANGED <<sent, outcomes, license, err>>
           ELSE \E a \in LicenseResponses :
                LET res == Acquire(a)
                IN  /\ sent' = Append(sent, [kind |-> "license", Index |-> 0,
                                             Count |-> 0, Name |-> NoBody,
                                             at |-> 0, License |-> NoBody])
                    /\ outcomes' = Append(outcomes, a)
                    /\ license' = res.license
                    /\ IF IsNil(res.err)
                           THEN /\ pc' = PartsPc(0, odm.Formats[1].Parts.Part)
                                /\ err' = err
                           ELSE /\ pc' = "error"
                                /\ err' = res.err
    /\ index' = 0
    /\ UNCHANGED <<page, dataBytes, prog, retryCount, rateInterval, spine,
                   odm, interval, requests, tick, now, files>>

(* lines 164-170 with downloadFile, lines 175-209: one part *)
FilePart ==
    /\ prog = "file" /\ pc = "parts"
    /\ \E r \in PartResponses :
        LET parts == odm.Formats[1].Parts.Part
            part  == parts[index + 1]
            res   == fileDownloadFile(part, r, files)
        IN  /\ sent' = Append(sent, [kind |-> "part", Index |-> index + 1,
                                     Count |-> 0, Name |-> PartFile(part),
                                     at |-> 0, License |-> license])
            /\ outcomes' = Append(outcomes, r)
            /\ files' = res.files
            /\ IF IsNil(res.err)
                   THEN /\ index' = index + 1
                        /\ pc' = PartsPc(index + 1, parts)
                        /\ err' = err
                   ELSE /\ index' = index
                        /\ pc' = "error"
                        /\ err' = res.err
    /\ UNCHANGED <<page, dataBytes, prog, retryCount, rateInterval, spine, odm, interval,
                   requests, tick, now, license>>

-----------------------------------------------------------------------------
NoOdm == [filename |-> "", decodes |-> FALSE, AcquisitionUrl |-> "", Formats |-> <<>>]

InitCommon ==
    /\ pc = "start"
    /\ dataBytes = NoBody
    /\ interval = 0
    /\ requests = <<>>
    /\ index = 0
    /\ tick = FALSE
    /\ now = 0
    /\ license = NoBody
    /\ files = [p \in FilePaths |-> Absent]
    /\ sent = <<>>
    /\ outcomes = <<>>
    /\ err = Nil

InitUrl ==
    /\ prog = "url"
    /\ retryCount \in -1..MaxRetry
    /\ rateInterval \in RateIntervals
    /\ page \in Pages
    /\ spine = <<>>
    /\ odm = NoOdm

InitFile ==
    /\ prog = "file"
    /\ retryCount = 0
    /\ rateInterval = "0"
    /\ page = NoPage
    /\ spine = <<>>
    /\ odm \in Descriptors

Init == InitCommon /\ (InitUrl \/ InitFile)

Next ==
    \/ UrlStart
    \/ UrlFetch
    \/ UrlExtract
    \/ UrlMetadata
    \/ UrlParse
    \/ BuildRequests
    \/ NewTicker
    \/ TimePasses
    \/ AwaitTick
    \/ UrlRespond
    \/ FileStart
    \/ FileValidate
    \/ FileAcquire
    \/ FilePart

Spec == Init /\ [][Next]_vars

(* The clock is counted up to MaxTime; the ticker keeps sending after that, *)
(* and a run blocked on ticker.C at that time still gets its tick.         *)
TickBeyondHorizon ==
    /\ prog = "url" /\ pc = "wait"
    /\ ~tick
    /\ now = MaxTime
    /\ tick' = TRUE
    /\ UNCHANGED <<page, dataBytes, prog, pc, retryCount, rateInterval, spine,
                   odm, interval, requests, index, now, license, files, sent,
                   outcomes, err>>

LiveNext == Next \/ TickBeyondHorizon

(* every awaited tick arrives, every request returns, and run itself takes *)
(* its next step when it can                                               *)
LiveSpec ==
    /\ Init /\ [][LiveNext]_vars
    /\ WF_vars(TimePasses) /\ WF_vars(TickBeyondHorizon)
    /\ WF_vars(UrlRespond)
    /\ WF_vars(NewTicker) /\ WF_vars(AwaitTick)

-----------------------------------------------------------------------------
(* Reading the history: sent[k] is the k-th request, outcomes[k] its answer *)

Is204(o) == o.net = "ok" /\ o.status = StatusNoContent

Is200(o) == o.net = "ok" /\ o.status = StatusOK

WrittenOk(o) == Is200(o) /\ o.fs = "ok"

(* a status other than 200 and 204, or a network failure *)
FatalAnswer(o) == o.net = "fail" \/ o.status \notin {StatusOK, StatusNoContent}

(* the k-th attempt of the URL variant ended with an error other than the  *)
(* 204                                                                     *)
EndedFatal(k) ==
    LET e == downloadFile(sent[k].Name, outcomes[k], files).err
    IN  ~IsNil(e) /\ e.fmt # errDownloadFailed.fmt

AttemptsOf(i) == {k \in 1..Len(sent) : sent[k].Index = i}

(* a 204 on an attempt whose retry count is below the limit *)
Retried(k) == Is204(outcomes[k]) /\ sent[k].Count < retryCount

(* the 204 answers among the first k that were retried *)
RetriedUpTo(k) == {j \in 1..k : Retried(j)}

(* the length of the queue once the k-th answer is handled *)
QueueLenAfter(k) == Len(spine) + Cardinality(RetriedUpTo(k))

-----------------------------------------------------------------------------
\* C1: with a retry limit R >= 0, a run of the URL variant over N entries
\* executes at most N*(1+R) attempts, and at most 1+R for any one entry.
C1_AttemptBound ==
    (prog = "url" /\ retryCount >= 0) =>
        /\ Len(sent) <= Len(spine) * (1 + retryCount)
        /\ \A i \in 1..Len(spine) :
               Cardinality(AttemptsOf(i)) <= 1 + retryCount

C1_Witness ==
    /\ prog = "url" /\ pc = "done"
    /\ retryCount = 1 /\ Len(spine) = 3
    /\ Len(sent) = 6
    /\ \A i \in 1..3 : Cardinality(AttemptsOf(i)) = 2

\* C2 (as amended): a 204 on an attempt with retry count below R appends
\* exactly one attempt of the same entry, with retry count one higher, at
\* the tail of the queue; that attempt is executed at its queue position,
\* after every attempt that was in the queue when it was appended.
C2_RetryAfterQueued ==
    prog = "url" =>
        \A k \in 1..Len(outcomes) : Retried(k) =>
            LET p == QueueLenAfter(k)
                again == DownloadAttempt(sent[k].Count + 1, sent[k].Index,
                                         sent[k].Name)
            IN  /\ k < p /\ p <= Len(requests)
                /\ requests[p] = again
                /\ Cardinality({q \in 1..Len(requests) :
                        /\ requests[q].Index = again.Index
                        /\ requests[q].Count = again.Count}) = 1
                /\ \A j \in 1..Len(sent) :
                        (sent[j].Index = again.Index
                            /\ sent[j].Count = again.Count) => j = p

C2_Witness ==
    /\ prog = "url" /\ Len(spine) = 3
    /\ Len(outcomes) >= 4
    /\ Retried(1)
    /\ sent[4].Index = 1 /\ sent[4].Count = 1
    /\ sent[2].Index = 2 /\ sent[3].Index = 3

\* C2 as first stated: in addition, the retry never is the attempt executed
\* right after the one that failed.
C2_RetryNeverNext ==
    /\ C2_RetryAfterQueued
    /\ prog = "url" =>
           \A k \in 1..Len(outcomes) : Retried(k) => QueueLenAfter(k) > k + 1

\* C3: a 204 on an attempt whose retry count equals R ends that entry: no
\* further attempt of it is queued, the run goes on, and it returns nil
\* unless some attempt ended fatally.
C3_ExhaustedEntryFails ==
    prog = "url" =>
        \A k \in 1..Len(outcomes) :
            (Is204(outcomes[k]) /\ sent[k].Count = retryCount) =>
                /\ \A q \in 1..Len(requests) :
                       requests[q].Index = sent[k].Index => q <= k
                /\ Len(requests) = QueueLenAfter(Len(outcomes))
                /\ (\A j \in 1..Len(outcomes) : ~EndedFatal(j)) =>
                       /\ pc \in {"wait", "download", "done"}
                       /\ IsNil(err)
                       /\ (Len(outcomes) = Len(requests) => pc = "done")

C3_Witness ==
    /\ prog = "url" /\ pc = "done" /\ IsNil(err)
    /\ retryCount = 1 /\ Len(spine) = 2
    /\ \E k \in 1..Len(outcomes) :
           /\ Is204(outcomes[k]) /\ sent[k].Count = retryCount
           /\ files[PathJoin(sent[k].Name)] = Absent

\* C4: in both programs a part request that ends with a status other than
\* 200 and 204, or with a network failure, makes run return an error, and
\* no request is sent after it.
C4_FatalStopsRun ==
    \A k \in 1..Len(outcomes) :
        (sent[k].kind = "part" /\ FatalAnswer(outcomes[k])) =>
            /\ pc = "error"
            /\ ~IsNil(err)
            /\ k = Len(sent)

C4_Witness ==
    /\ prog = "url" /\ pc = "error"
    /\ Len(outcomes) > 0
    /\ FatalAnswer(outcomes[Len(outcomes)])
    /\ \E q \in (Len(sent) + 1)..Len(requests) : requests[q].Count = 0
    /\ \E q \in (Len(sent) + 1)..Len(requests) : requests[q].Count > 0


\* C5: a 204 on a part request never is the answer on which run returns an
\* error, in either program: the remaining parts are still attempted.
C5_NoContentNeverFatal ==
    \A k \in 1..Len(outcomes) :
        (sent[k].kind = "part" /\ Is204(outcomes[k])) =>
            ~(pc = "error" /\ k = Len(outcomes))

\* C5, the URL variant alone: there a 204 never makes run return an error.
C5_UrlNoContentNeverFatal == prog = "url" => C5_NoContentNeverFatal

Max(a, b) == IF a >= b THEN a ELSE b

(* entry i got a 200, and that was its last attempt *)
Succeeded(i) ==
    \E k \in AttemptsOf(i) :
        /\ k <= Len(outcomes) /\ Is200(outcomes[k])
        /\ \A j \in AttemptsOf(i) : j <= k

(* the attempt of entry i with retry count c got a 204 *)
FailedAt(i, c) ==
    \E k \in AttemptsOf(i) :
        k <= Len(outcomes) /\ sent[k].Count = c /\ Is204(outcomes[k])

\* C6 (as amended): when a run of the URL variant returns nil, every queued
\* attempt has been executed and every entry has exactly one of the two
\* outcomes: Succeeded (a 200 on its last attempt) or Failed (a 204 on its
\* attempt with retry count max(R, 0)).
C6_OneTerminalOutcome ==
    (prog = "url" /\ pc = "done") =>
        /\ Len(sent) = Len(requests)
        /\ Len(outcomes) = Len(sent)
        /\ \A i \in 1..Len(spine) :
               Succeeded(i) # FailedAt(i, Max(retryCount, 0))

C6_Witness ==
    /\ prog = "url" /\ pc = "done"
    /\ retryCount = 1 /\ Len(spine) = 3
    /\ Succeeded(1) /\ Cardinality(AttemptsOf(1)) = 2
    /\ FailedAt(2, 1) /\ ~Succeeded(2)
    /\ Succeeded(3) /\ Cardinality(AttemptsOf(3)) = 1

\* C6 as first stated: Failed is a 204 on the attempt with retry count R.
C6_FailedAtLimit ==
    (prog = "url" /\ pc = "done") =>
        /\ Len(sent) = Len(requests)
        /\ Len(outcomes) = Len(sent)
        /\ \A i \in 1..Len(spine) : Succeeded(i) # FailedAt(i, retryCount)

\* C7: the k-th first attempt executed is that of entry k, and no retry is
\* executed before the first attempts of all entries have been.
C7_FirstAttemptsInOrder ==
    prog = "url" =>
        \A k \in 1..Len(sent) :
            /\ sent[k].Count = 0 => sent[k].Index = k
            /\ sent[k].Count > 0 => k > Len(spine)

C7_Witness ==
    /\ prog = "url" /\ Len(spine) = 3
    /\ Len(sent) = 5
    /\ \A k \in 1..3 : sent[k].Index = k /\ sent[k].Count = 0
    /\ sent[4].Index = 2 /\ sent[4].Count = 1
    /\ sent[5].Index = 3 /\ sent[5].Count = 1

\* C8: every attempt begins at least one interval after the previous one
\* began (after the ticker was started, for the first).
C8_AttemptsSpaced ==
    prog = "url" =>
        \A k \in 1..Len(sent) :
            sent[k].at - (IF k = 1 THEN 0 ELSE sent[k - 1].at) >= interval

\* C9: with rate interval 0 and the manifest a.mp3, b.mp3, a run whose
\* requests are all answered 200 and written returns nil and leaves exactly
\* the two files, each holding the body of its answer.
C9_TwoFilesWritten ==
    (/\ prog = "url"
     /\ rateInterval = "0"
     /\ spine = <<"a.mp3", "b.mp3">>
     /\ pc \in {"done", "error", "panic"}
     /\ \A k \in 1..Len(outcomes) : WrittenOk(outcomes[k])) =>
        /\ pc = "done"
        /\ Len(outcomes) = 2
        /\ \A p \in FilePaths \ {MetadataPath} :
               files[p] = CASE p = "a.mp3" -> outcomes[1].body
                            [] p = "b.mp3" -> outcomes[2].body
                            [] OTHER       -> Absent

\* C9 with a positive rate interval in place of 0.
C9_TwoFilesWrittenPaced ==
    (/\ prog = "url"
     /\ rateInterval \in {"1s", "2s"}
     /\ spine = <<"a.mp3", "b.mp3">>
     /\ pc \in {"done", "error", "panic"}
     /\ \A k \in 1..Len(outcomes) : WrittenOk(outcomes[k])) =>
        /\ pc = "done"
        /\ Len(outcomes) = 2
        /\ \A p \in FilePaths \ {MetadataPath} :
               files[p] = CASE p = "a.mp3" -> outcomes[1].body
                            [] p = "b.mp3" -> outcomes[2].body
                            [] OTHER       -> Absent

(* the descriptor breaks one of the four rules of lines 111-128 *)
WrongFormats(d) == Len(d.Formats) # 1

WrongPartCount(d) ==
    /\ Len(d.Formats) >= 1
    /\ Len(d.Formats[1].Parts.Part) # d.Formats[1].Parts.Count

WrongProtocols(d) ==
    Len(d.Formats) >= 1 /\ Len(d.Formats[1].Protocols) # 1

WrongMethod(d) ==
    /\ Len(d.Formats) >= 1 /\ Len(d.Formats[1].Protocols) >= 1
    /\ d.Formats[1].Protocols[1].Method # "download"

Invalid(d) ==
    WrongFormats(d) \/ WrongPartCount(d) \/ WrongProtocols(d) \/ WrongMethod(d)

(* the error tells one of the mismatches of the descriptor *)
NamesMismatch(e, d) ==
    \/ /\ WrongFormats(d)
       /\ e.fmt = "expected 1 format, got %d"
       /\ e.args = <<Len(d.Formats)>>
    \/ /\ WrongPartCount(d)
       /\ Len(e.args) = 2
       /\ e.args = <<d.Formats[1].Parts.Count, Len(d.Formats[1].Parts.Part)>>
    \/ /\ WrongProtocols(d)
       /\ e.fmt = "expected 1 protocol, got %d"
       /\ e.args = <<Len(d.Formats[1].Protocols)>>
    \/ /\ WrongMethod(d)
       /\ e.fmt = "unknown protocol method: %s"
       /\ e.args = <<d.Formats[1].Protocols[1].Method>>

\* C10: a descriptor that breaks one of the four rules makes run return an
\* error that names the mismatch, with no request sent and no file written.
C10_InvalidDescriptorRejected ==
    (/\ prog = "file"
     /\ odm.filename # "" /\ odm.decodes
     /\ Invalid(odm)
     /\ pc \notin {"start", "validate"}) =>
        /\ pc = "error"
        /\ Len(sent) = 0
        /\ \A p \in FilePaths : files[p] = Absent
        /\ NamesMismatch(err, odm)

\* C10 without the wording of the error: the descriptor is rejected before
\* any request is sent and any file written.
C10_RejectedBeforeRequests ==
    (/\ prog = "file"
     /\ odm.filename # "" /\ odm.decodes
     /\ Invalid(odm)
     /\ pc \notin {"start", "validate"}) =>
        /\ pc = "error" /\ ~IsNil(err)
        /\ Len(sent) = 0
        /\ \A p \in FilePaths : files[p] = Absent

-----------------------------------------------------------------------------
(* The page as the claims about the resolver see it *)

PageFetched == prog = "url" /\ pc \notin {"start", "fetch", "extract"}
                 /\ page.url # "" /\ page.answer.net = "ok"
                 /\ page.answer.status = StatusOK
                 /\ IsNil(ParseDuration(rateInterval).err)

IsRuntimeDiv(n) ==
    n.Type = "element" /\ n.Data = "div" /\ n.Id = "BIFOCAL-runtime"

IsDataScript(n) ==
    n.Type = "element" /\ n.Data = "script" /\ n.Id = "BIFOCAL-data"

RuntimeDivs == {i \in 1..Len(page.body) : IsRuntimeDiv(page.body[i])}

(* the first div#BIFOCAL-runtime of body *)
FirstRuntime ==
    page.body[CHOOSE i \in RuntimeDivs : \A j \in RuntimeDivs : i <= j]

DataScripts(div) == {i \in 1..Len(div.Kids) : IsDataScript(div.Kids[i])}

FirstDataScript(div) ==
    div.Kids[CHOOSE i \in DataScripts(div) : \A j \in DataScripts(div) : i <= j]

(* the segment of the path that has no matching child, "" if none *)
MissingTag ==
    IF RuntimeDivs = {} THEN "div"
    ELSE IF DataScripts(FirstRuntime) = {} THEN "script"
    ELSE ""

(* the script element is there and its text does not match the pattern *)
PatternFails ==
    /\ MissingTag = ""
    /\ LET script == FirstDataScript(FirstRuntime)
       IN  \/ script.Kids = <<>>
           \/ Len(FindSubmatch(UnescapeString(script.Kids[1].Data))) = 0

\* C11: when the script element is found and its text does not match the
\* pattern (or it has no text child), run returns an error and no part
\* request is sent.
C11_NoMatchIsError ==
    (PageFetched /\ PatternFails) =>
        /\ pc = "error" /\ ~IsNil(err)
        /\ Len(sent) = 0

\* C12: when a segment of the path has no matching child, run returns the
\* error that names the segment's tag; no file is written, metadata.json
\* included, and no part request is sent.
C12_MissingElementNamed ==
    (PageFetched /\ MissingTag # "") =>
        /\ pc = "error"
        /\ err.fmt = "unable to find element <%s>"
        /\ err.args = <<MissingTag>>
        /\ \A p \in FilePaths : files[p] = Absent
        /\ Len(sent) = 0

C12_Witness ==
    /\ PageFetched /\ pc = "error"
    /\ MissingTag = "script"
    /\ \E i \in 1..Len(FirstRuntime.Kids) : FirstRuntime.Kids[i].Data = "script"

\* C13: from the moment the bytes are about to be decoded, metadata.json
\* holds exactly the extracted bytes; no part request is sent before that,
\* and when decoding fails run returns the error with the file as written.
C13_MetadataBeforeParse ==
    prog = "url" =>
        /\ (pc \in {"parse", "build", "ticker", "wait", "download", "done"}
              \/ Len(sent) > 0 \/ Len(requests) > 0) =>
               /\ dataBytes # NoBody
               /\ files[MetadataPath] = dataBytes
        /\ (pc = "error" /\ err.fmt = "invalid character") =>
               /\ files[MetadataPath] = dataBytes
               /\ dataBytes = "{J,}"
               /\ Len(sent) = 0
               /\ \A p \in FilePaths \ {MetadataPath} : files[p] = Absent

C13_Witness ==
    /\ prog = "url" /\ pc = "error"
    /\ err.fmt = "invalid character"
    /\ files[MetadataPath] = "{J,}"

(* the destination names of the run's manifest, in order *)
EntryNames ==
    IF prog = "url" THEN page.manifest
    ELSE IF Len(odm.Formats) = 0 THEN <<>>
    ELSE [i \in 1..Len(odm.Formats[1].Parts.Part) |->
             PartFile(odm.Formats[1].Parts.Part[i])]

Outside(path) == path = "../a.mp3"

BadManifest(names) ==
    \E i \in 1..Len(names) :
        \/ names[i] = ""
        \/ Outside(PathJoin(names[i]))
        \/ \E j \in 1..Len(names) : j # i /\ names[j] = names[i]

\* C14: a manifest with an empty, repeated or escaping destination name is
\* rejected before any part request or file write; no file outside the
\* output directory is ever written, and no two entries write one file.
C14_NamesValidated ==
    /\ (BadManifest(EntryNames) /\ Len(sent) > 0) =>
           /\ pc = "error"
           /\ \A k \in 1..Len(sent) : sent[k].kind # "part"
    /\ \A p \in FilePaths : Outside(p) => files[p] = Absent
    /\ \A j, k \in 1..Len(outcomes) :
           (/\ sent[j].kind = "part" /\ sent[k].kind = "part"
            /\ sent[j].Index # sent[k].Index
            /\ WrittenOk(outcomes[j]) /\ WrittenOk(outcomes[k])) =>
               PathJoin(sent[j].Name) # PathJoin(sent[k].Name)

\* C14, its second part alone
C14_NothingOutside == \A p \in FilePaths : Outside(p) => files[p] = Absent

\* C15: every queued attempt carries the 1-based manifest position of its
\* entry, a requeued attempt the one of the attempt it repeats, and the
\* error of a fatal failure the one of the attempt that failed.
C15_IndexStable ==
    prog = "url" =>
        /\ \A q \in 1..Len(requests) :
               /\ requests[q].Index \in 1..Len(spine)
               /\ requests[q].Name = spine[requests[q].Index]
               /\ q <= Len(spine) => requests[q].Index = q
        /\ \A k \in 1..Len(outcomes) : Retried(k) =>
               requests[QueueLenAfter(k)].Index = sent[k].Index
        /\ (pc = "error" /\ Len(outcomes) > 0) =>
               /\ err.fmt = "downloading file %d failed: %v"
               /\ err.args[1] = sent[Len(sent)].Index

C15_Witness ==
    /\ prog = "url" /\ pc = "error"
    /\ Len(sent) > Len(spine)
    /\ sent[Len(sent)].Count = 1
    /\ err.args[1] = 2
    /\ Len(sent) = 5

\* C16: in the descriptor variant a part request is sent only after the
\* acquisition answered 200, and carries the body of that answer as its
\* License header; any other end of the acquisition ends the run with an
\* error, that one request sent and no file written.
C16_LicenseGatesParts ==
    prog = "file" =>
        /\ \A k \in 1..Len(sent) : sent[k].kind = "part" =>
               /\ k > 1
               /\ sent[1].kind = "license"
               /\ Is200(outcomes[1])
               /\ sent[k].License = outcomes[1].body
        /\ (Len(outcomes) >= 1 /\ ~Is200(outcomes[1])) =>
               /\ pc = "error" /\ ~IsNil(err)
               /\ Len(sent) = 1
               /\ \A p \in FilePaths : files[p] = Absent

C16_Witness ==
    /\ prog = "file" /\ pc = "done"
    /\ Len(sent) = 3
    /\ outcomes[1].body = "L2"
    /\ sent[2].License = "L2" /\ sent[3].License = "L2"

(* the queue positions whose attempt has not begun *)
Pending == {q \in 1..Len(requests) : q > Len(sent)}

(* the 204 answers the entry of position q had at earlier positions *)
NoContentBefore(q) ==
    {j \in 1..Len(outcomes) :
        /\ j < q
        /\ sent[j].Index = requests[q].Index
        /\ Is204(outcomes[j])}

QueueWellFormed ==
    prog = "url" =>
        /\ \A q1, q2 \in Pending :
               requests[q1].Index = requests[q2].Index => q1 = q2
        /\ \A q \in 1..Len(requests) :
               /\ requests[q].Count >= 0
               /\ requests[q].Count <= Max(retryCount, 0)
               /\ requests[q].Count = Cardinality(NoContentBefore(q))

QueueOnlyGrows ==
    (prog = "url" /\ pc # "build") =>
        /\ Len(requests') >= Len(requests)
        /\ SubSeq(requests', 1, Len(requests)) = requests
        /\ Len(requests') <= Len(requests) + 1
        /\ Len(requests') = Len(requests) + 1 <=>
               /\ Len(outcomes') = Len(outcomes) + 1
               /\ Is204(outcomes'[Len(outcomes')])
               /\ sent[Len(sent)].Count < retryCount

\* C17: in the URL variant the queue holds at most one attempt that has not
\* begun per manifest entry, the Count of every queued attempt lies between
\* 0 and max(R, 0) and is the number of 204 answers its entry had before
\* it was queued, and the queue changes only by one attempt appended per
\* retried 204.
C17_QueueInvariants == []QueueWellFormed /\ [][QueueOnlyGrows]_vars

C17_Witness ==
    /\ prog = "url" /\ pc = "wait" /\ retryCount = 1
    /\ Len(spine) = 3 /\ Len(requests) = 5 /\ Len(sent) = 3
    /\ Pending = {4, 5}
    /\ requests[4].Index = 1 /\ requests[4].Count = 1
    /\ requests[5].Index = 3 /\ requests[5].Count = 1

LoopEntered == prog = "url" /\ pc = "ticker" /\ interval > 0

LoopLeft == pc \in {"done", "error"}

Drained ==
    /\ index = Len(requests) /\ Len(sent) = Len(requests)
    /\ Len(outcomes) = Len(sent)
    /\ IsNil(err)
    /\ \A k \in 1..Len(outcomes) : ~EndedFatal(k)

FirstFatal ==
    /\ ~IsNil(err)
    /\ Len(outcomes) = Len(sent)
    /\ EndedFatal(Len(outcomes))
    /\ \A k \in 1..(Len(outcomes) - 1) : ~EndedFatal(k)

\* C18: in the URL variant, when every awaited tick arrives and every
\* request returns, the loop ends for every manifest, retry limit and
\* sequence of answers: run returns nil with the whole queue, retries
\* included, executed and no fatal answer, or it returns an error at the
\* first fatal answer.
C18_LoopTerminates ==
    /\ LoopEntered ~> LoopLeft
    /\ []((prog = "url" /\ pc = "done") => Drained)
    /\ []((prog = "url" /\ pc = "error" /\ Len(outcomes) > 0) => FirstFatal)

C18_Witness ==
    /\ prog = "url" /\ pc = "done" /\ interval = 2
    /\ Len(spine) = 3 /\ Len(requests) = 6 /\ Len(sent) = 6
    /\ now = MaxTime

(* the destination of the k-th request, a part request *)
PathOf(k) == PathJoin(sent[k].Name)

(* the step is the end of a part attempt without a 200 answer *)
EndsWithout200 ==
    /\ Len(outcomes') = Len(outcomes) + 1
    /\ sent'[Len(outcomes')].kind = "part"
    /\ ~Is200(outcomes'[Len(outcomes')])

PartFilesHave200 ==
    \A p \in FilePaths \ {MetadataPath} : files[p] # Absent =>
        \E k \in 1..Len(outcomes) :
            /\ sent[k].kind = "part"
            /\ PathOf(k) = p
            /\ Is200(outcomes[k])

====
